---- MODULE Spec2Model ----
(***************************************************************************)
(* Model of the backtesting engine: the day-by-day driver run_backtest,    *)
(* the Portfolio order-execution state machine, and the win-rate part of   *)
(* compute_metrics.                                                        *)
(*                                                                         *)
(* Money is fixed point: an amount is an integer count of 1/Scale units,   *)
(* and a commission rate is an integer count of 1/Scale (per mille).  The  *)
(* closing prices and capitals of the model are whole numbers of units, so *)
(* every product price * quantity * (1 +- rate) is exact.  The rounding of *)
(* Python's binary floats is not modelled.                                 *)
(*                                                                         *)
(* The specifications share the variables:                                 *)
(*   Spec           run_backtest over a price history, then main's call of *)
(*                  compute_metrics;                                       *)
(*   SpecPortfolio  a Portfolio driven directly through execute_order and  *)
(*                  log_equity, valid arguments on each call;              *)
(*   SpecGate       the same Portfolio with orders of any quantity and     *)
(*                  price maps over any set of tickers;                    *)
(*   SpecValuation  Spec and SpecGate side by side: both callers of        *)
(*                  log_equity;                                            *)
(*   SpecMetrics    compute_metrics applied to any trade log;              *)
(*   SpecDrawdown   compute_metrics applied to any equity history;         *)
(*   SpecFrame      Spec and SpecPortfolio side by side: every caller of   *)
(*                  the two mutators;                                      *)
(*   SpecStrategy   run_backtest driven by a fresh SMACrossover or         *)
(*                  MeanReversion instance;                                *)
(*   SpecRerun      SpecStrategy followed by further runs that reuse the   *)
(*                  strategy instance.                                     *)
(***************************************************************************)
EXTENDS Integers, Sequences, FiniteSets, TLC

\* ------------------------------------------------------------------ bounds
MaxDays == 2
MaxOrders == 2
MaxQty == 2
MaxLog == 4
MaxCalls == 4
MaxBars == 6
MaxCurve == 4
MaxGateCalls == 2
MaxRuns == 2

Scale == 1000

Tickers == {"A", "B"}
Sides == {"BUY", "SELL", "HOLD"}
Quantities == 1..MaxQty
Closes == {1 * Scale, 2 * Scale}
Capitals == {2 * Scale, 5 * Scale}
Commissions == {0, 1}
StartDays == {4, 5}

\* ------------------------------------------------------------------ state
VARIABLES
    data,              \* the price history: rows [date, Close], ascending dates
    starting_capital,  \* run parameter
    commission_pct,    \* run parameter, in 1/Scale
    pc,                \* position in run_backtest / main
    i,                 \* loop index of run_backtest (0-based)
    today,             \* data.index[i]
    history,           \* the view handed to strategy.on_data
    call_count,        \* number of on_data calls so far (SpecPortfolio: of calls)
    orders,            \* the list on_data returned for the current day
                       \* (SpecPortfolio: the order of the current call)
    k,                 \* 1-based index of the next order of `orders`
    close_price,       \* today's Close
    cash,              \* Portfolio.cash
    positions,         \* Portfolio.positions: a function on the held tickers
    equity_curve,      \* Portfolio.equity_curve
    accepted,          \* what the last execute_order call returned
    total_trades,      \* run_backtest's counter
    trade_log,         \* run_backtest's trade log
    metrics,           \* the result of compute_metrics
    strategy,          \* the strategy instance's constructor arguments
    in_position,       \* the strategy instance's _in_position flag
    price_map,         \* the price map handed to log_equity
    earlier_runs       \* what the earlier run_backtest calls returned

vars == <<data, starting_capital, commission_pct, pc, i, today, history,
          call_count, orders, k, close_price, cash, positions, equity_curve,
          accepted, total_trades, trade_log, metrics, strategy, in_position,
          price_map, earlier_runs>>

\* ------------------------------------------------------------------ values
Order == [ticker : Tickers, side : Sides, quantity : Quantities]

\* What the strategy of a run may ask for: a round trip in one instrument, a
\* purchase of the other, and an order with an invalid side.
StrategyOrders ==
    { [ticker |-> "A", side |-> "BUY", quantity |-> 2],
      [ticker |-> "A", side |-> "SELL", quantity |-> 2],
      [ticker |-> "B", side |-> "BUY", quantity |-> 1],
      [ticker |-> "B", side |-> "HOLD", quantity |-> 1] }

\* on_data returns any list of up to MaxOrders of them.
OrderLists == UNION {[1..n -> StrategyOrders] : n \in 0..MaxOrders}

NoPositions == [t \in {} |-> 0]

\* No price map has been built yet.
NoPrices == [t \in {} |-> 0]

\* A strategy behind the abstract interface only: on_data may return any list.
AnyStrategy == [kind |-> "any"]

\* The date index of a price history: consecutive business days (days are
\* numbered from a Monday, 6 and 7 mod 7 are the weekend), so dates ascend,
\* are unique, and differ from row numbers.
NextBusinessDay(d) == IF d % 7 = 5 THEN d + 3 ELSE d + 1

RECURSIVE DatesFrom(_, _)
DatesFrom(d, n) ==
    IF n = 0 THEN <<>> ELSE <<d>> \o DatesFrom(NextBusinessDay(d), n - 1)

Histories ==
    UNION {
        { [j \in 1..n |-> [date |-> DatesFrom(d, n)[j], Close |-> c[j]]] :
            d \in StartDays, c \in [1..n -> Closes] }
        : n \in 1..MaxDays }

\* ------------------------------------------------------------------ pandas
\* data.iloc[: n]: the first n rows.
iloc(df, n) == SubSeq(df, 1, IF n <= Len(df) THEN n ELSE Len(df))

\* variant: the Close of the first row, whatever the label
at_FirstRow(df, label) == df[1].Close

\* data.at[label, "Close"]: the Close of the row whose index label is `label`.
at(df, label) == (CHOOSE r \in {df[j] : j \in 1..Len(df)} : r.date = label).Close

\* ------------------------------------------------------------------ Portfolio
\* positions.get(ticker, 0)
get(pos, ticker) == IF ticker \in DOMAIN pos THEN pos[ticker] ELSE 0

\* positions[ticker] = n
put(pos, ticker, n) ==
    [t \in (DOMAIN pos) \cup {ticker} |-> IF t = ticker THEN n ELSE pos[t]]

\* del positions[ticker]
del(pos, ticker) == [t \in (DOMAIN pos) \ {ticker} |-> pos[t]]

\* variant: no commission on a purchase
BuyCost_NoCommission(price, quantity, commission) == price * quantity

\* price * quantity * (1 + commission_pct)
BuyCost(price, quantity, commission) ==
    (price * quantity * (Scale + commission)) \div Scale

\* variant: the commission is added to the proceeds
SellProceeds_PlusCommission(price, quantity, commission) ==
    (price * quantity * (Scale + commission)) \div Scale

\* price * quantity * (1 - commission_pct)
SellProceeds(price, quantity, commission) ==
    (price * quantity * (Scale - commission)) \div Scale

\* variant: a cost equal to the cash is rejected
BuyRejected_AtEqual(cost, c) == cost >= c

\* cost > self.cash
BuyRejected(cost, c) == cost > c

\* held < order.quantity
SellRejected(held, quantity) == held < quantity

\* variant: the entry is kept when its count reaches zero
AfterSell_NoPrune(pos, ticker, quantity) ==
    put(pos, ticker, pos[ticker] - quantity)

\* positions after an accepted SELL: decrement, prune the entry at zero
AfterSell(pos, ticker, quantity) ==
    LET dec == put(pos, ticker, pos[ticker] - quantity)
    IN  IF dec[ticker] = 0 THEN del(dec, ticker) ELSE dec

\* Portfolio.execute_order: the accepted flag and the portfolio after the call.
\* raised marks a call that ends in KeyError instead of returning: a SELL that
\* passes the held-shares check for a ticker without an entry has already
\* added the proceeds to the cash when positions[ticker] -= quantity fails.
execute_order(c, pos, order, price, commission) ==
    IF order.side = "BUY" THEN
        LET cost == BuyCost(price, order.quantity, commission)
        IN  IF BuyRejected(cost, c)
            THEN [accepted |-> FALSE, raised |-> FALSE, cash |-> c, positions |-> pos]
            ELSE [accepted |-> TRUE, raised |-> FALSE,
                  cash |-> c - cost,
                  positions |-> put(pos, order.ticker,
                                    get(pos, order.ticker) + order.quantity)]
    ELSE IF order.side = "SELL" THEN
        LET held == get(pos, order.ticker)
        IN  IF SellRejected(held, order.quantity)
            THEN [accepted |-> FALSE, raised |-> FALSE, cash |-> c, positions |-> pos]
            ELSE IF order.ticker \notin DOMAIN pos
            THEN [accepted |-> FALSE, raised |-> TRUE,
                  cash |-> c + SellProceeds(price, order.quantity, commission),
                  positions |-> pos]
            ELSE [accepted |-> TRUE, raised |-> FALSE,
                  cash |-> c + SellProceeds(price, order.quantity, commission),
                  positions |-> AfterSell(pos, order.ticker, order.quantity)]
    ELSE [accepted |-> FALSE, raised |-> FALSE, cash |-> c, positions |-> pos]

RECURSIVE SumValue(_, _, _)
SumValue(pos, prices, S) ==
    IF S = {} THEN 0
    ELSE LET t == CHOOSE x \in S : TRUE
         IN  pos[t] * prices[t] + SumValue(pos, prices, S \ {t})

\* variant: the market value alone, without the cash
get_equity_NoCash(c, pos, prices) == SumValue(pos, prices, DOMAIN pos)

\* Portfolio.get_equity: cash + sum of shares * prices[ticker].  A price is an
\* amount in 1/Scale units, a share count is a plain integer.
get_equity(c, pos, prices) == c + SumValue(pos, prices, DOMAIN pos)

\* the record Portfolio.log_equity appends
EquityEntry(date, c, pos, prices) ==
    [date |-> date, equity |-> get_equity(c, pos, prices)]

\* prices[ticker] raises KeyError when a held ticker has no price
KeyErrorIn(pos, prices) == \E t \in DOMAIN pos : t \notin DOMAIN prices

\* variant: the new entry is put in front of the history
log_equity_Prepends(curve, date, c, pos, prices) ==
    IF KeyErrorIn(pos, prices)
    THEN [raised |-> TRUE, equity_curve |-> curve]
    ELSE [raised |-> FALSE,
          equity_curve |-> <<EquityEntry(date, c, pos, prices)>> \o curve]

\* Portfolio.log_equity: the equity history after the call; raised marks a
\* call that ends in the KeyError of get_equity, before anything is appended.
log_equity(curve, date, c, pos, prices) ==
    IF KeyErrorIn(pos, prices)
    THEN [raised |-> TRUE, equity_curve |-> curve]
    ELSE [raised |-> FALSE,
          equity_curve |-> Append(curve, EquityEntry(date, c, pos, prices))]

\* ------------------------------------------------------------------ compute_metrics
\* variant: pending_buys.pop(), the newest pending price
pop_Newest(pending_buys) ==
    [value |-> pending_buys[Len(pending_buys)],
     rest |-> SubSeq(pending_buys, 1, Len(pending_buys) - 1)]

\* pending_buys.pop(0): the oldest pending price and the rest of the queue
pop0(pending_buys) == [value |-> Head(pending_buys), rest |-> Tail(pending_buys)]

\* trade["price"] > buy_price
IsWin(sell_price, buy_price) == sell_price > buy_price

\* The win-rate loop over trade_log[n..], carrying wins, completed, pending_buys.
RECURSIVE WinLoop(_, _, _, _, _)
WinLoop(log, n, wins, completed, pending_buys) ==
    IF n > Len(log) THEN [wins |-> wins, completed |-> completed]
    ELSE IF log[n].side = "BUY" THEN
        WinLoop(log, n + 1, wins, completed, Append(pending_buys, log[n].price))
    ELSE IF log[n].side = "SELL" /\ pending_buys # <<>> THEN
        LET p == pop0(pending_buys)
        IN  WinLoop(log, n + 1,
                    IF IsWin(log[n].price, p.value) THEN wins + 1 ELSE wins,
                    completed + 1, p.rest)
    ELSE WinLoop(log, n + 1, wins, completed, pending_buys)

\* The same loop, naming the trades it pairs: pending holds, for every price in
\* pending_buys, the index of the BUY record the price was appended from. The
\* result is the set of <<BUY index, SELL index>> that `completed` counts.
RECURSIVE PairedTrades(_, _, _)
PairedTrades(log, n, pending) ==
    IF n > Len(log) THEN {}
    ELSE IF log[n].side = "BUY"
         THEN PairedTrades(log, n + 1, Append(pending, n))
         ELSE IF log[n].side = "SELL" /\ pending # <<>>
              THEN {<<Head(pending), n>>} \cup PairedTrades(log, n + 1, Tail(pending))
              ELSE PairedTrades(log, n + 1, pending)

\* win_rate_pct = (wins / completed * 100) if completed > 0 else 0.0, kept as
\* the exact fraction num / den.
WinRatePct(wins, completed) ==
    IF completed > 0 THEN [num |-> wins * 100, den |-> completed]
    ELSE [num |-> 0, den |-> 1]

\* equities = [e["equity"] for e in equity_curve]
Equities(curve) == [j \in 1..Len(curve) |-> curve[j].equity]

\* variant: the reference level is the first equity value
cummax_FirstValue(equities, n) == equities[1]

\* equity_series.cummax() at row n
RECURSIVE cummax(_, _)
cummax(equities, n) ==
    IF n = 1 THEN equities[1]
    ELSE LET m == cummax(equities, n - 1)
         IN  IF equities[n] > m THEN equities[n] ELSE m

\* (equity_series - rolling_max) / rolling_max * 100 at row n, as num / den
drawdown(equities, n) ==
    [num |-> (equities[n] - cummax(equities, n)) * 100,
     den |-> cummax(equities, n)]

\* drawdown.min() over rows 1..n. Denominators are positive and every
\* numerator is a multiple of 100, which the comparison divides out.
RECURSIVE SeriesMin(_, _)
SeriesMin(equities, n) ==
    IF n = 1 THEN drawdown(equities, 1)
    ELSE LET m == SeriesMin(equities, n - 1)
             d == drawdown(equities, n)
         IN  IF (d.num \div 100) * m.den < (m.num \div 100) * d.den THEN d ELSE m

\* compute_metrics: the max-drawdown and the win-rate sections.
compute_metrics(curve, log) ==
    LET r == WinLoop(log, 1, 0, 0, <<>>)
    IN  [wins |-> r.wins, completed |-> r.completed,
         win_rate_pct |-> WinRatePct(r.wins, r.completed),
         max_drawdown_pct |-> SeriesMin(Equities(curve), Len(curve))]

NoMetrics ==
    [wins |-> 0, completed |-> 0, win_rate_pct |-> [num |-> 0, den |-> 1],
     max_drawdown_pct |-> [num |-> 0, den |-> 1]]

\* ------------------------------------------------------------------ run_backtest
\* variant: the view runs one row past today
HistoryView_Lookahead(df, idx) == iloc(df, idx + 2)

\* history = data.iloc[: i + 1]
HistoryView(df, idx) == iloc(df, idx + 1)

\* the record appended to trade_log for an accepted order
TradeRecord(order, price, date) ==
    [side |-> order.side, price |-> price, quantity |-> order.quantity,
     ticker |-> order.ticker, date |-> date]

\* variant: only the first ticker is priced
PriceMap_FirstTicker(pos, price) == [t \in (DOMAIN pos) \cap {"A"} |-> price]

\* prices = {ticker: close_price for ticker in portfolio.positions}
PriceMap(pos, price) == [t \in DOMAIN pos |-> price]

Init ==
    /\ data \in Histories
    /\ starting_capital \in Capitals
    /\ commission_pct \in Commissions
    /\ pc = "loop"
    /\ i = 0
    /\ today = 0
    /\ history = <<>>
    /\ call_count = 0
    /\ orders = <<>>
    /\ k = 1
    /\ close_price = 0
    /\ cash = starting_capital
    /\ positions = NoPositions
    /\ equity_curve = <<>>
    /\ accepted = FALSE
    /\ total_trades = 0
    /\ trade_log = <<>>
    /\ metrics = NoMetrics
    /\ strategy = AnyStrategy
    /\ in_position = FALSE
    /\ price_map = NoPrices
    /\ earlier_runs = <<>>

\* One loop iteration up to the order loop: take today's label, cut the
\* history view, call the strategy (any list of orders), read today's Close.
OnData ==
    /\ pc = "loop"
    /\ i < Len(data)
    /\ today' = data[i + 1].date
    /\ history' = HistoryView(data, i)
    /\ call_count' = call_count + 1
    /\ orders' \in OrderLists
    /\ k' = 1
    /\ close_price' = at(data, today')
    /\ pc' = "orders"
    /\ UNCHANGED <<data, starting_capital, commission_pct, i, cash, positions,
                   equity_curve, accepted, total_trades, trade_log, metrics,
                   strategy, in_position, price_map,
                   earlier_runs>>

\* variant: every order is counted and logged, accepted or not
ExecuteOrder_CountsRejected ==
    /\ pc = "orders"
    /\ k <= Len(orders)
    /\ LET r == execute_order(cash, positions, orders[k], close_price, commission_pct)
       IN  /\ cash' = r.cash
           /\ positions' = r.positions
           /\ accepted' = r.accepted
           /\ total_trades' = total_trades + 1
           /\ trade_log' = Append(trade_log,
                                  TradeRecord(orders[k], close_price, today))
    /\ k' = k + 1
    /\ UNCHANGED <<data, starting_capital, commission_pct, pc, i, today, history,
                   call_count, orders, close_price, equity_curve, metrics,
                   strategy, in_position, price_map,
                   earlier_runs>>

\* One pass of `for order in orders`: execute, and count and log if accepted.
ExecuteOrder ==
    /\ pc = "orders"
    /\ k <= Len(orders)
    /\ LET r == execute_order(cash, positions, orders[k], close_price, commission_pct)
       IN  /\ cash' = r.cash
           /\ positions' = r.positions
           /\ accepted' = r.accepted
           /\ pc' = IF r.raised THEN "raised" ELSE pc
           /\ IF r.accepted
              THEN /\ total_trades' = total_trades + 1
                   /\ trade_log' = Append(trade_log,
                                          TradeRecord(orders[k], close_price, today))
              ELSE UNCHANGED <<total_trades, trade_log>>
    /\ k' = k + 1
    /\ UNCHANGED <<data, starting_capital, commission_pct, i, today, history,
                   call_count, orders, close_price, equity_curve, metrics,
                   strategy, in_position, price_map,
                   earlier_runs>>

\* variant: a day without orders is not logged
LogEquity_SkipsIdleDays ==
    /\ pc = "orders"
    /\ k > Len(orders)
    /\ equity_curve' =
           IF orders = <<>> THEN equity_curve
           ELSE Append(equity_curve,
                    EquityEntry(today, cash, positions, PriceMap(positions, close_price)))
    /\ price_map' = PriceMap(positions, close_price)
    /\ i' = i + 1
    /\ pc' = "loop"
    /\ UNCHANGED <<data, starting_capital, commission_pct, today, history,
                   call_count, orders, k, close_price, cash, positions,
                   accepted, total_trades, trade_log, metrics,
                   strategy, in_position,
                   earlier_runs>>

\* variant: the valuation does not wait for the end of the order loop
LogEquity_BeforeOrders ==
    /\ pc = "orders"
    /\ equity_curve' = Append(equity_curve,
           EquityEntry(today, cash, positions, PriceMap(positions, close_price)))
    /\ price_map' = PriceMap(positions, close_price)
    /\ i' = i + 1
    /\ pc' = "loop"
    /\ UNCHANGED <<data, starting_capital, commission_pct, today, history,
                   call_count, orders, k, close_price, cash, positions,
                   accepted, total_trades, trade_log, metrics,
                   strategy, in_position,
                   earlier_runs>>

\* After the order loop: price the held positions at today's close, append
\* the day's equity, advance to the next day.
LogEquity ==
    /\ pc = "orders"
    /\ k > Len(orders)
    /\ price_map' = PriceMap(positions, close_price)
    /\ LET r == log_equity(equity_curve, today, cash, positions, price_map')
       IN  /\ equity_curve' = r.equity_curve
           /\ i' = IF r.raised THEN i ELSE i + 1
           /\ pc' = IF r.raised THEN "raised" ELSE "loop"
    /\ UNCHANGED <<data, starting_capital, commission_pct, today, history,
                   call_count, orders, k, close_price, cash, positions,
                   accepted, total_trades, trade_log, metrics,
                   strategy, in_position,
                   earlier_runs>>

\* The loop is exhausted: run_backtest returns.
Return ==
    /\ pc = "loop"
    /\ i >= Len(data)
    /\ pc' = "returned"
    /\ UNCHANGED <<data, starting_capital, commission_pct, i, today, history,
                   call_count, orders, k, close_price, cash, positions,
                   equity_curve, accepted, total_trades, trade_log, metrics,
                   strategy, in_position, price_map,
                   earlier_runs>>

\* main: metrics = compute_metrics(portfolio.equity_curve, total_trades, trade_log, data)
ComputeMetrics ==
    /\ pc = "returned"
    /\ metrics' = compute_metrics(equity_curve, trade_log)
    /\ pc' = "reported"
    /\ UNCHANGED <<data, starting_capital, commission_pct, i, today, history,
                   call_count, orders, k, close_price, cash, positions,
                   equity_curve, accepted, total_trades, trade_log,
                   strategy, in_position, price_map,
                   earlier_runs>>

Next == OnData \/ ExecuteOrder \/ LogEquity \/ Return \/ ComputeMetrics

Spec == Init /\ [][Next]_vars

\* ------------------------------------------------------------------ Portfolio alone
\* A Portfolio constructed with any non-negative cash and driven by its two
\* public mutators in any order, each call with any order of positive
\* quantity, any price, rate and date, and any price map over the held
\* tickers.  call_count counts the calls, up to MaxCalls.
LogDates == {1, 2}

InitPortfolio ==
    /\ data = <<>>
    /\ starting_capital \in {0} \cup Capitals
    /\ commission_pct = 0
    /\ pc = "idle"
    /\ i = 0
    /\ today = 0
    /\ history = <<>>
    /\ call_count = 0
    /\ orders = <<>>
    /\ k = 1
    /\ close_price = 0
    /\ cash = starting_capital
    /\ positions = NoPositions
    /\ equity_curve = <<>>
    /\ accepted = FALSE
    /\ total_trades = 0
    /\ trade_log = <<>>
    /\ metrics = NoMetrics
    /\ strategy = AnyStrategy
    /\ in_position = FALSE
    /\ price_map = NoPrices
    /\ earlier_runs = <<>>

\* The caller picks the arguments of an execute_order call.
CallExecute ==
    /\ pc = "idle"
    /\ call_count < MaxCalls
    /\ call_count' = call_count + 1
    /\ \E o \in Order : orders' = <<o>>
    /\ k' = 1
    /\ close_price' \in Closes
    /\ commission_pct' \in Commissions
    /\ pc' = "execute"
    /\ UNCHANGED <<data, starting_capital, i, today, history, cash, positions,
                   equity_curve, accepted, total_trades, trade_log, metrics,
                   strategy, in_position, price_map,
                   earlier_runs>>

\* Portfolio.execute_order on the picked arguments.
PortfolioExecute ==
    /\ pc = "execute"
    /\ LET r == execute_order(cash, positions, orders[k], close_price, commission_pct)
       IN  /\ cash' = r.cash
           /\ positions' = r.positions
           /\ accepted' = r.accepted
           /\ pc' = IF r.raised THEN "raised" ELSE "idle"
    /\ k' = k + 1
    /\ UNCHANGED <<data, starting_capital, commission_pct, i, today, history,
                   call_count, orders, close_price, equity_curve, total_trades,
                   trade_log, metrics,
                   strategy, in_position, price_map,
                   earlier_runs>>

\* Portfolio.log_equity with any date and any price map over the held tickers.
PortfolioLog ==
    /\ pc = "idle"
    /\ call_count < MaxCalls
    /\ call_count' = call_count + 1
    /\ today' \in LogDates
    /\ price_map' \in [DOMAIN positions -> Closes]
    /\ LET r == log_equity(equity_curve, today', cash, positions, price_map')
       IN  /\ equity_curve' = r.equity_curve
           /\ pc' = IF r.raised THEN "raised" ELSE pc
    /\ UNCHANGED <<data, starting_capital, commission_pct, i, history, orders,
                   k, close_price, cash, positions, accepted, total_trades,
                   trade_log, metrics,
                   strategy, in_position,
                   earlier_runs>>

NextPortfolio == CallExecute \/ PortfolioExecute \/ PortfolioLog

SpecPortfolio == InitPortfolio /\ [][NextPortfolio]_vars

\* ------------------------------------------------------- Portfolio, any caller
\* The same Portfolio driven by a caller that keeps no precondition: orders
\* of any quantity, zero and negative included, and price maps over any set
\* of tickers; up to MaxGateCalls calls.
AnyQuantities == (0 - MaxQty)..MaxQty

AnyOrder == [ticker : Tickers, side : Sides, quantity : AnyQuantities]

PriceMaps == UNION {[S -> Closes] : S \in SUBSET Tickers}

\* The caller picks the arguments of an execute_order call.
CallExecuteAny ==
    /\ pc = "idle"
    /\ call_count < MaxGateCalls
    /\ call_count' = call_count + 1
    /\ \E o \in AnyOrder : orders' = <<o>>
    /\ k' = 1
    /\ close_price' \in Closes
    /\ commission_pct' \in Commissions
    /\ pc' = "execute"
    /\ UNCHANGED <<data, starting_capital, i, today, history, cash, positions,
                   equity_curve, accepted, total_trades, trade_log, metrics,
                   strategy, in_position, price_map,
                   earlier_runs>>

\* Portfolio.log_equity with any date and any price map.
PortfolioLogAny ==
    /\ pc = "idle"
    /\ call_count < MaxGateCalls
    /\ call_count' = call_count + 1
    /\ today' \in LogDates
    /\ price_map' \in PriceMaps
    /\ LET r == log_equity(equity_curve, today', cash, positions, price_map')
       IN  /\ equity_curve' = r.equity_curve
           /\ pc' = IF r.raised THEN "raised" ELSE pc
    /\ UNCHANGED <<data, starting_capital, commission_pct, i, history, orders,
                   k, close_price, cash, positions, accepted, total_trades,
                   trade_log, metrics,
                   strategy, in_position,
                   earlier_runs>>

NextGate == CallExecuteAny \/ PortfolioExecute \/ PortfolioLogAny

SpecGate == InitPortfolio /\ [][NextGate]_vars

\* ------------------------------------------------- valuation, both callers
\* Either a run of run_backtest or a Portfolio driven by any caller: the two
\* places log_equity is called from.
InitValuation == Init \/ InitPortfolio

NextValuation == Next \/ NextGate

SpecValuation == InitValuation /\ [][NextValuation]_vars

\* ---------------------------------------------- the mutators, both callers
\* Either a run of run_backtest or a Portfolio driven directly with valid
\* arguments: every place the two mutators are called from.
InitFrame == Init \/ InitPortfolio

NextFrame == Next \/ NextPortfolio

SpecFrame == InitFrame /\ [][NextFrame]_vars

\* ------------------------------------------------------------------ compute_metrics alone
\* compute_metrics is a function of its arguments: called on any trade log of
\* BUY and SELL records, after a one-day run that left the portfolio untouched.
TradeLogs ==
    UNION {[1..n -> [side : {"BUY", "SELL"}, price : Closes, quantity : {1},
                     ticker : Tickers, date : {1}]] : n \in 0..MaxLog}

InitMetrics ==
    /\ data \in {<<[date |-> 1, Close |-> c]>> : c \in Closes}
    /\ starting_capital \in Capitals
    /\ commission_pct = 0
    /\ pc = "returned"
    /\ i = 1
    /\ today = 1
    /\ history = data
    /\ call_count = 1
    /\ orders = <<>>
    /\ k = 1
    /\ close_price = data[1].Close
    /\ cash = starting_capital
    /\ positions = NoPositions
    /\ equity_curve = <<[date |-> 1, equity |-> starting_capital]>>
    /\ accepted = FALSE
    /\ trade_log \in TradeLogs
    /\ total_trades = Len(trade_log)
    /\ metrics = NoMetrics
    /\ strategy = AnyStrategy
    /\ in_position = FALSE
    /\ price_map = NoPrices
    /\ earlier_runs = <<>>

NextMetrics == ComputeMetrics

SpecMetrics == InitMetrics /\ [][NextMetrics]_vars

\* ------------------------------------------------- compute_metrics, equity
\* compute_metrics called on any equity history of positive values.
EquityValues == {1 * Scale, 2 * Scale, 3 * Scale}

EquityCurves ==
    UNION {
        { [j \in 1..n |-> [date |-> DatesFrom(4, n)[j], equity |-> e[j]]] :
            e \in [1..n -> EquityValues] }
        : n \in 1..MaxCurve }

InitDrawdown ==
    /\ equity_curve \in EquityCurves
    /\ data = [j \in 1..Len(equity_curve) |->
                  [date |-> equity_curve[j].date, Close |-> 1 * Scale]]
    /\ starting_capital = equity_curve[1].equity
    /\ commission_pct = 0
    /\ pc = "returned"
    /\ i = Len(data)
    /\ today = data[Len(data)].date
    /\ history = data
    /\ call_count = Len(data)
    /\ orders = <<>>
    /\ k = 1
    /\ close_price = 1 * Scale
    /\ cash = equity_curve[Len(equity_curve)].equity
    /\ positions = NoPositions
    /\ accepted = FALSE
    /\ trade_log = <<>>
    /\ total_trades = 0
    /\ metrics = NoMetrics
    /\ strategy = AnyStrategy
    /\ in_position = FALSE
    /\ price_map = NoPrices
    /\ earlier_runs = <<>>

NextDrawdown == ComputeMetrics

SpecDrawdown == InitDrawdown /\ [][NextDrawdown]_vars

\* ============================================================== strategies
\* pandas statistics are modelled exactly: a mean is the pair sum / window, a
\* standard deviation is kept as its square, and nan marks a window that is
\* not full. A comparison with nan is false, as in Python.

\* history["Close"]
CloseColumn(hist) == [j \in 1..Len(hist) |-> hist[j].Close]

RECURSIVE WindowSum(_, _, _)
WindowSum(closes, n, window) ==
    IF window = 0 THEN 0 ELSE closes[n] + WindowSum(closes, n - 1, window - 1)

RECURSIVE WindowSumSq(_, _, _)
WindowSumSq(closes, n, window) ==
    IF window = 0 THEN 0
    ELSE closes[n] * closes[n] + WindowSumSq(closes, n - 1, window - 1)

\* closes.rolling(window).mean() at row n
rolling_mean(closes, window, n) ==
    IF n < window \/ n < 1
    THEN [nan |-> TRUE, num |-> 0, den |-> 1]
    ELSE [nan |-> FALSE, num |-> WindowSum(closes, n, window), den |-> window]

\* a < b on two means
Lt(a, b) == ~a.nan /\ ~b.nan /\ a.num * b.den < b.num * a.den

\* ------------------------------------------------------------ SMACrossover
\* variant: a tie yesterday counts as "below"
CrossedAbove_NonStrict(short_yesterday, long_yesterday, short_today, long_today) ==
    ~Lt(long_yesterday, short_yesterday) /\ Lt(long_today, short_today)

\* short_yesterday < long_yesterday and short_today > long_today
CrossedAbove(short_yesterday, long_yesterday, short_today, long_today) ==
    Lt(short_yesterday, long_yesterday) /\ Lt(long_today, short_today)

\* short_yesterday > long_yesterday and short_today < long_today
CrossedBelow(short_yesterday, long_yesterday, short_today, long_today) ==
    Lt(long_yesterday, short_yesterday) /\ Lt(short_today, long_today)

\* variant: a BUY signal is followed whatever the flag says
MayEnter_Always(flag) == TRUE

\* if not self._in_position
MayEnter(flag) == ~flag

\* SMACrossover.on_data: the orders returned and the flag left behind.
SMACrossover_on_data(self, flag, hist) ==
    IF Len(hist) < self.long_window + 1
    THEN [orders |-> <<>>, in_position |-> flag]
    ELSE LET closes == CloseColumn(hist)
             n == Len(hist)
             short_today == rolling_mean(closes, self.short_window, n)
             short_yesterday == rolling_mean(closes, self.short_window, n - 1)
             long_today == rolling_mean(closes, self.long_window, n)
             long_yesterday == rolling_mean(closes, self.long_window, n - 1)
         IN  IF CrossedAbove(short_yesterday, long_yesterday, short_today, long_today)
             THEN IF MayEnter(flag)
                  THEN [orders |-> <<[ticker |-> self.ticker, side |-> "BUY",
                                      quantity |-> self.quantity]>>,
                        in_position |-> TRUE]
                  ELSE [orders |-> <<>>, in_position |-> flag]
             ELSE IF CrossedBelow(short_yesterday, long_yesterday,
                                  short_today, long_today)
                  THEN IF flag
                       THEN [orders |-> <<[ticker |-> self.ticker, side |-> "SELL",
                                           quantity |-> self.quantity]>>,
                             in_position |-> FALSE]
                       ELSE [orders |-> <<>>, in_position |-> flag]
                  ELSE [orders |-> <<>>, in_position |-> flag]

\* ----------------------------------------------------------- MeanReversion
\* variant: the variance divides by the window length
rolling_std_Population(closes, window, n) ==
    IF n < window \/ n < 1
    THEN [nan |-> TRUE, num |-> 0, den |-> 1]
    ELSE [nan |-> FALSE,
          num |-> window * WindowSumSq(closes, n, window)
                      - WindowSum(closes, n, window) * WindowSum(closes, n, window),
          den |-> window * window]

\* closes.rolling(window).std() at row n, as its square num / den. pandas
\* takes ddof = 1: the squared deviations are divided by window - 1, and a
\* window of one row has no standard deviation.
rolling_std(closes, window, n) ==
    IF n < window \/ n < 1 \/ window = 1
    THEN [nan |-> TRUE, num |-> 0, den |-> 1]
    ELSE [nan |-> FALSE,
          num |-> window * WindowSumSq(closes, n, window)
                      - WindowSum(closes, n, window) * WindowSum(closes, n, window),
          den |-> window * (window - 1)]

\* rolling_std == 0
IsZero(std) == ~std.nan /\ std.num = 0

\* (closes.iloc[-1] - rolling_mean) / rolling_std: the deviation num / den over
\* the square root of vnum / vden.
z_score(close, mean, std) ==
    [nan |-> mean.nan \/ std.nan,
     num |-> close * mean.den - mean.num, den |-> mean.den,
     vnum |-> std.num, vden |-> std.den]

\* z < t and z > t for a threshold t = num / den, den > 0, by sign and square:
\* z * z = (z.num^2 * z.vden) / (z.den^2 * z.vnum).
ZBelow(z, t) ==
    /\ ~z.nan
    /\ LET N == z.num * z.num * z.vden * t.den * t.den
           M == t.num * t.num * z.den * z.den * z.vnum
       IN  IF t.num <= 0 THEN z.num < 0 /\ N > M
           ELSE z.num <= 0 \/ N < M

ZAbove(z, t) ==
    /\ ~z.nan
    /\ LET N == z.num * z.num * z.vden * t.den * t.den
           M == t.num * t.num * z.den * z.den * z.vnum
       IN  IF t.num >= 0 THEN z.num > 0 /\ N > M
           ELSE z.num >= 0 \/ N < M

\* z < self.entry_z and not self._in_position
EntrySignal(z, entry_z, flag) == ZBelow(z, entry_z) /\ ~flag

\* variant: the exit does not look at the flag
ExitSignal_IgnoresFlag(z, exit_z, flag) == ZAbove(z, exit_z)

\* z > self.exit_z and self._in_position
ExitSignal(z, exit_z, flag) == ZAbove(z, exit_z) /\ flag

\* MeanReversion.on_data: the orders returned and the flag left behind.
MeanReversion_on_data(self, flag, hist) ==
    IF Len(hist) < self.lookback
    THEN [orders |-> <<>>, in_position |-> flag]
    ELSE LET closes == CloseColumn(hist)
             n == Len(hist)
             mean == rolling_mean(closes, self.lookback, n)
             std == rolling_std(closes, self.lookback, n)
             z == z_score(closes[n], mean, std)
         IN  IF IsZero(std)
             THEN [orders |-> <<>>, in_position |-> flag]
             ELSE IF EntrySignal(z, self.entry_z, flag)
                  THEN [orders |-> <<[ticker |-> self.ticker, side |-> "BUY",
                                      quantity |-> self.quantity]>>,
                        in_position |-> TRUE]
                  ELSE IF ExitSignal(z, self.exit_z, flag)
                       THEN [orders |-> <<[ticker |-> self.ticker, side |-> "SELL",
                                           quantity |-> self.quantity]>>,
                             in_position |-> FALSE]
                       ELSE [orders |-> <<>>, in_position |-> flag]

\* ------------------------------------------- run_backtest with a strategy
\* strategy.on_data(history) for the two strategies of the repository
on_data(self, flag, hist) ==
    IF self.kind = "sma" THEN SMACrossover_on_data(self, flag, hist)
    ELSE MeanReversion_on_data(self, flag, hist)

\* Windows with short_window < long_window, lookbacks of two and three rows,
\* and entry / exit thresholds as fractions.
SMAWindows == {<<1, 2>>, <<1, 3>>, <<2, 3>>}
Lookbacks == {2, 3}
EntryZs == {[num |-> -1, den |-> 2], [num |-> -4, den |-> 5]}
ExitZs == {[num |-> 0, den |-> 1], [num |-> -1, den |-> 1]}

Strategies ==
    { [kind |-> "sma", ticker |-> "A", short_window |-> w[1],
       long_window |-> w[2], quantity |-> q] : w \in SMAWindows, q \in Quantities }
    \cup
    { [kind |-> "mr", ticker |-> "A", lookback |-> w, entry_z |-> e,
       exit_z |-> x, quantity |-> q] :
          w \in Lookbacks, e \in EntryZs, x \in ExitZs, q \in Quantities }

StrategyHistories ==
    UNION {
        { [j \in 1..n |-> [date |-> DatesFrom(4, n)[j], Close |-> c[j]]] :
            c \in [1..n -> Closes] }
        : n \in 1..MaxBars }

\* A fresh strategy instance and an empty portfolio.
InitStrategy ==
    /\ data \in StrategyHistories
    /\ starting_capital \in Capitals
    /\ commission_pct \in Commissions
    /\ strategy \in Strategies
    /\ in_position = FALSE
    /\ price_map = NoPrices
    /\ earlier_runs = <<>>
    /\ pc = "loop"
    /\ i = 0
    /\ today = 0
    /\ history = <<>>
    /\ call_count = 0
    /\ orders = <<>>
    /\ k = 1
    /\ close_price = 0
    /\ cash = starting_capital
    /\ positions = NoPositions
    /\ equity_curve = <<>>
    /\ accepted = FALSE
    /\ total_trades = 0
    /\ trade_log = <<>>
    /\ metrics = NoMetrics

\* The head of the day loop, with on_data run by the strategy instance.
StrategyOnData ==
    /\ pc = "loop"
    /\ i < Len(data)
    /\ today' = data[i + 1].date
    /\ history' = HistoryView(data, i)
    /\ call_count' = call_count + 1
    /\ LET r == on_data(strategy, in_position, history')
       IN  /\ orders' = r.orders
           /\ in_position' = r.in_position
    /\ k' = 1
    /\ close_price' = at(data, today')
    /\ pc' = "orders"
    /\ UNCHANGED <<data, starting_capital, commission_pct, i, cash, positions,
                   equity_curve, accepted, total_trades, trade_log, metrics,
                   strategy, price_map,
                   earlier_runs>>

NextStrategy == StrategyOnData \/ ExecuteOrder \/ LogEquity \/ Return

SpecStrategy == InitStrategy /\ [][NextStrategy]_vars

\* --------------------------------------- run_backtest twice, one instance
\* A caller that passes the same strategy instance, price history, capital
\* and commission to a second run_backtest after the first has returned.
\* run_backtest builds a new Portfolio, counter and log; the strategy object
\* is the caller's and nothing in run_backtest touches its flag.
RunAgain ==
    /\ pc = "returned"
    /\ Len(earlier_runs) + 1 < MaxRuns
    /\ earlier_runs' = Append(earlier_runs,
           [trade_log |-> trade_log, equity_curve |-> equity_curve])
    /\ pc' = "loop"
    /\ i' = 0
    /\ today' = 0
    /\ history' = <<>>
    /\ call_count' = 0
    /\ orders' = <<>>
    /\ k' = 1
    /\ close_price' = 0
    /\ cash' = starting_capital
    /\ positions' = NoPositions
    /\ equity_curve' = <<>>
    /\ accepted' = FALSE
    /\ total_trades' = 0
    /\ trade_log' = <<>>
    /\ price_map' = NoPrices
    /\ UNCHANGED <<data, starting_capital, commission_pct, metrics, strategy,
                   in_position>>

NextRerun == NextStrategy \/ RunAgain

SpecRerun == InitStrategy /\ [][NextRerun]_vars

\* ================================================================== claims
Last(seq) == seq[Len(seq)]

Held(t) == IF t \in DOMAIN positions THEN positions[t] ELSE 0

HeldAfter(t) == IF t \in DOMAIN positions' THEN positions'[t] ELSE 0

\* An order is about to be executed: the next one of the current day's list
\* in run_backtest, or the argument of a direct execute_order call.
Executing == pc \in {"orders", "execute"} /\ k <= Len(orders)

\* ------------------------------------------------------------------ C1
\* C1 (no lookahead): on_data has been called once per day started, the view
\* of the i-th call is exactly the first i rows of the price history, its last
\* date is the current day's date, no row of it is dated after the current
\* day, and when run_backtest has returned on_data was called exactly N times.
C1_NoLookahead ==
    /\ call_count = (IF pc = "orders" THEN i + 1 ELSE i)
    /\ call_count <= Len(data)
    /\ call_count > 0 =>
        /\ Len(history) = call_count
        /\ \A j \in 1..Len(history) : history[j] = data[j]
        /\ history[Len(history)].date = today
        /\ today = data[call_count].date
        /\ \A j \in 1..Len(history) : history[j].date <= today
        /\ \A j \in (call_count + 1)..Len(data) :
               \A h \in 1..Len(history) : history[h].date # data[j].date
    /\ pc \in {"returned", "reported"} => call_count = Len(data)

\* The strategy has been called on a day that is not the last one: later rows
\* exist and are not in the view.
C1_Witness ==
    /\ pc = "orders"
    /\ call_count = 1
    /\ call_count < Len(data)
    /\ Len(history) = 1

\* ------------------------------------------------------------------ C2
\* C2 (portfolio invariant): cash is never negative and every entry of
\* positions has a share count above zero.
C2_PortfolioInvariant ==
    /\ cash >= 0
    /\ \A t \in DOMAIN positions : positions[t] > 0

\* After a log_equity call, a SELL took a position down to zero and its entry
\* is gone, while the other instrument is still held.
C2_Witness ==
    /\ k > 1
    /\ accepted
    /\ orders[k - 1].side = "SELL"
    /\ orders[k - 1].ticker \notin DOMAIN positions
    /\ positions # NoPositions
    /\ equity_curve # <<>>

\* ------------------------------------------------------------------ C3
\* C3 (BUY execution): a BUY of q at price p with rate c is accepted exactly
\* when p*q*(1+c) <= cash; when accepted, cash drops by exactly p*q*(1+c), the
\* instrument's count rises by exactly q (the entry exists afterwards) and no
\* other position changes.
C3_BuyStep ==
    (Executing /\ orders[k].side = "BUY") =>
        LET o == orders[k]
            cost1000 == close_price * o.quantity * (Scale + commission_pct)
        IN  /\ accepted' <=> (cost1000 <= cash * Scale)
            /\ accepted' =>
                /\ (cash - cash') * Scale = cost1000
                /\ o.ticker \in DOMAIN positions'
                /\ positions'[o.ticker] = Held(o.ticker) + o.quantity
                /\ \A t \in Tickers \ {o.ticker} :
                       /\ (t \in DOMAIN positions') <=> (t \in DOMAIN positions)
                       /\ HeldAfter(t) = Held(t)

C3_BuyExecution == [][C3_BuyStep]_vars

\* A BUY whose cost equals the whole cash was accepted, next to a position in
\* the other instrument.
C3_Witness ==
    /\ k > 1
    /\ accepted
    /\ orders[k - 1].side = "BUY"
    /\ cash = 0
    /\ Cardinality(DOMAIN positions) = 2

\* ------------------------------------------------------------------ C4
\* C4 (SELL execution): a SELL of q at price p with rate c is accepted exactly
\* when the held count is >= q; when accepted, cash rises by exactly
\* p*q*(1-c), the count drops by exactly q, the entry is removed when the
\* count reaches 0, and no other position changes.
C4_SellStep ==
    (Executing /\ orders[k].side = "SELL") =>
        LET o == orders[k]
            proceeds1000 == close_price * o.quantity * (Scale - commission_pct)
        IN  /\ accepted' <=> (Held(o.ticker) >= o.quantity)
            /\ accepted' =>
                /\ (cash' - cash) * Scale = proceeds1000
                /\ HeldAfter(o.ticker) = Held(o.ticker) - o.quantity
                /\ (o.ticker \in DOMAIN positions') <=> (Held(o.ticker) > o.quantity)
                /\ \A t \in Tickers \ {o.ticker} :
                       /\ (t \in DOMAIN positions') <=> (t \in DOMAIN positions)
                       /\ HeldAfter(t) = Held(t)

C4_SellExecution == [][C4_SellStep]_vars

\* A SELL under a nonzero commission closed a position entirely (its entry is
\* gone) while the other instrument is still held.
C4_Witness ==
    /\ k > 1
    /\ accepted
    /\ orders[k - 1].side = "SELL"
    /\ commission_pct > 0
    /\ orders[k - 1].ticker \notin DOMAIN positions
    /\ positions # NoPositions

\* ------------------------------------------------------------------ C5
\* The order about to be executed is one the portfolio must reject.
C5_MustReject ==
    LET o == orders[k]
    IN  \/ o.side = "BUY"
           /\ close_price * o.quantity * (Scale + commission_pct) > cash * Scale
        \/ o.side = "SELL" /\ Held(o.ticker) < o.quantity
        \/ o.side \notin {"BUY", "SELL"}

\* C5 (rejection leaves state unchanged): when execute_order returns False
\* (BUY with insufficient cash, SELL with insufficient or no shares, another
\* side), cash and positions are unchanged, the trade counter and the trade
\* log are unchanged, and the loop goes on with the next order.
C5_RejectStep ==
    (Executing /\ (C5_MustReject \/ ~accepted')) =>
        /\ ~accepted'
        /\ cash' = cash
        /\ positions' = positions
        /\ total_trades' = total_trades
        /\ trade_log' = trade_log
        /\ equity_curve' = equity_curve
        /\ pc' = "orders"
        /\ k' = k + 1
        /\ orders' = orders

C5_RejectionUnchanged == [][C5_RejectStep]_vars

\* On the first day a rejected first order (an invalid side) was followed by
\* an accepted second order.
C5_Witness ==
    /\ pc = "orders"
    /\ i = 0
    /\ k = 3
    /\ orders[1].side = "HOLD"
    /\ Len(trade_log) = 1
    /\ total_trades = 1

\* ------------------------------------------------------------------ C6
\* C6 (equity history completeness): the equity history has one entry per
\* completed day (one fewer than the days started while a day is in progress),
\* its k-th entry carries the k-th day's date, its dates are strictly
\* increasing, and after run_backtest it has exactly N entries.
C6_EquityHistory ==
    /\ Len(equity_curve) = (IF pc = "orders" THEN call_count - 1 ELSE call_count)
    /\ \A n \in 1..Len(equity_curve) : equity_curve[n].date = data[n].date
    /\ \A n \in 1..(Len(equity_curve) - 1) :
           equity_curve[n].date < equity_curve[n + 1].date
    /\ pc \in {"returned", "reported"} => Len(equity_curve) = Len(data)

\* run_backtest has returned from a run of more than one day, the last of
\* them without orders.
C6_Witness ==
    /\ pc = "returned"
    /\ Len(data) > 1
    /\ orders = <<>>
    /\ Len(equity_curve) = Len(data)

\* ------------------------------------------------------------------ C7
RECURSIVE C7_Sum(_, _, _)
C7_Sum(shares, price, n) ==
    IF n = 0 THEN 0 ELSE shares[n] * price[n] + C7_Sum(shares, price, n - 1)

\* cash plus the market value of the held positions under the price map pm,
\* summed instrument by instrument
C7_Value(pm) ==
    LET held == {t \in Tickers : t \in DOMAIN positions}
        order == CHOOSE f \in [1..Cardinality(held) -> held] :
                     \A a, b \in 1..Cardinality(held) : a # b => f[a] # f[b]
    IN  cash + C7_Sum([n \in 1..Cardinality(held) |-> positions[order[n]]],
                      [n \in 1..Cardinality(held) |-> pm[order[n]]],
                      Cardinality(held))

\* C7 (recorded valuation): once a day is logged, its equity entry equals the
\* cash after that day's executions plus shares * that day's close over the
\* held instruments; get_equity of any price map is cash plus the sum of
\* shares * price, and is the cash alone when nothing is held.
C7_RecordedValuation ==
    /\ (pc # "orders" /\ equity_curve # <<>>) =>
           LET e == Last(equity_curve)
               close == data[Len(equity_curve)].Close
           IN  /\ e.equity = C7_Value([t \in Tickers |-> close])
               /\ e.date = data[Len(equity_curve)].date
    /\ \A pm \in [DOMAIN positions -> Closes] :
           get_equity(cash, positions, pm) = C7_Value(pm)
    /\ positions = NoPositions => get_equity(cash, positions, <<>>) = cash

\* A day was logged with both instruments held, so the entry exceeds the cash.
C7_Witness ==
    /\ pc = "loop"
    /\ equity_curve # <<>>
    /\ Cardinality(DOMAIN positions) = 2
    /\ Last(equity_curve).equity > cash
    /\ cash > 0

\* ------------------------------------------------------------------ C8
\* the Close of the row of the price history dated d
C8_CloseOn(d) ==
    LET row == CHOOSE j \in 1..Len(data) : data[j].date = d IN data[row].Close

\* the order is accepted from the current portfolio
C8_Accepts(o) ==
    \/ o.side = "BUY"
       /\ close_price * o.quantity * (Scale + commission_pct) <= cash * Scale
    \/ o.side = "SELL" /\ Held(o.ticker) >= o.quantity

\* seq1 is a subsequence of seq2 (same order, gaps allowed)
RECURSIVE C8_IsSubseq(_, _)
C8_IsSubseq(seq1, seq2) ==
    IF seq1 = <<>> THEN TRUE
    ELSE IF seq2 = <<>> THEN FALSE
    ELSE IF Head(seq1) = Head(seq2) THEN C8_IsSubseq(Tail(seq1), Tail(seq2))
    ELSE C8_IsSubseq(seq1, Tail(seq2))

C8_State ==
    /\ total_trades = Len(trade_log)
    /\ \A n \in 1..Len(trade_log) :
           /\ \E j \in 1..Len(data) : data[j].date = trade_log[n].date
           /\ trade_log[n].price = C8_CloseOn(trade_log[n].date)
    /\ \A n \in 1..(Len(trade_log) - 1) : trade_log[n].date <= trade_log[n + 1].date
    /\ pc = "orders" =>
           LET mine == SelectSeq(trade_log, LAMBDA r : r.date = today)
               done == SubSeq(orders, 1, k - 1)
           IN  C8_IsSubseq(
                   [n \in 1..Len(mine) |->
                       [ticker |-> mine[n].ticker, side |-> mine[n].side,
                        quantity |-> mine[n].quantity]],
                   done)

C8_Step ==
    /\ Executing =>
           IF C8_Accepts(orders[k])
           THEN /\ total_trades' = total_trades + 1
                /\ trade_log' = Append(trade_log,
                       [side |-> orders[k].side, price |-> C8_CloseOn(today),
                        quantity |-> orders[k].quantity,
                        ticker |-> orders[k].ticker, date |-> today])
           ELSE /\ total_trades' = total_trades
                /\ trade_log' = trade_log
    /\ ~Executing => (total_trades' = total_trades /\ trade_log' = trade_log)

\* C8 (trade log and counter): one record is appended per accepted order and
\* none otherwise, so total_trades is the length of the trade log; a record
\* carries the order's side, quantity and instrument, the date of its day and
\* that day's closing price; records are in execution order.
C8_TradeLog == [](C8_State) /\ [][C8_Step]_vars

\* Two orders of one day were accepted on a later day than an earlier trade,
\* at a close that differs from the first day's.
C8_Witness ==
    /\ Len(trade_log) = 3
    /\ trade_log[1].date < trade_log[2].date
    /\ trade_log[2].date = trade_log[3].date
    /\ trade_log[1].price # trade_log[2].price
    /\ trade_log[2].side # trade_log[3].side

\* ------------------------------------------------------------------ C9
RECURSIVE C9_Flow(_, _)
\* Scale times the net cash flow of the first n records of the trade log
C9_Flow(log, n) ==
    IF n = 0 THEN 0
    ELSE LET r == log[n]
         IN  C9_Flow(log, n - 1)
             + (IF r.side = "BUY"
                THEN 0 - r.price * r.quantity * (Scale + commission_pct)
                ELSE r.price * r.quantity * (Scale - commission_pct))

RECURSIVE C9_Net(_, _, _)
\* bought minus sold quantity of instrument t over the first n records
C9_Net(log, t, n) ==
    IF n = 0 THEN 0
    ELSE C9_Net(log, t, n - 1)
         + (IF log[n].ticker # t THEN 0
            ELSE IF log[n].side = "BUY" THEN log[n].quantity
            ELSE 0 - log[n].quantity)

\* the trade log of a run that bought q on the first day and sold q on the last
C9_BuyFirstSellLast ==
    /\ Len(trade_log) = 2
    /\ Len(data) >= 2
    /\ trade_log[1].side = "BUY" /\ trade_log[1].date = data[1].date
    /\ trade_log[2].side = "SELL" /\ trade_log[2].date = data[Len(data)].date
    /\ trade_log[1].ticker = trade_log[2].ticker
    /\ trade_log[1].quantity = trade_log[2].quantity

\* C9 (cash accounting): cash is the starting capital minus p*q*(1+c) over the
\* logged BUYs plus p*q*(1-c) over the logged SELLs, each instrument's held
\* count is its logged BUY quantity minus its logged SELL quantity, and a run
\* that bought q on the first day and sold q on the last ends with two trades
\* and no position.
C9_CashAccounting ==
    /\ cash * Scale = starting_capital * Scale + C9_Flow(trade_log, Len(trade_log))
    /\ \A t \in Tickers : Held(t) = C9_Net(trade_log, t, Len(trade_log))
    /\ DOMAIN positions \subseteq Tickers
    /\ (pc = "returned" /\ C9_BuyFirstSellLast) =>
           /\ total_trades = 2
           /\ positions = NoPositions
           /\ (cash - starting_capital) * Scale =
                  trade_log[2].price * trade_log[2].quantity * (Scale - commission_pct)
                  - trade_log[1].price * trade_log[1].quantity * (Scale + commission_pct)

\* run_backtest returned from a run that bought 2 on the first day at the
\* lower close and sold 2 on the last day at the higher close, with commission.
C9_Witness ==
    /\ pc = "returned"
    /\ C9_BuyFirstSellLast
    /\ commission_pct > 0
    /\ trade_log[1].quantity = 2
    /\ trade_log[1].price < trade_log[2].price
    /\ cash > starting_capital

\* ------------------------------------------------------------------ C10
RECURSIVE C10_Pairs(_, _)
\* The <<buy index, sell index>> pairs among the first n records: each SELL
\* closes the earliest earlier BUY that no earlier SELL has closed.
C10_Pairs(log, n) ==
    IF n = 0 THEN {}
    ELSE LET P == C10_Pairs(log, n - 1)
             free == {b \in 1..(n - 1) :
                         log[b].side = "BUY" /\ \A p \in P : p[1] # b}
         IN  IF log[n].side = "SELL" /\ free # {}
             THEN P \cup {<<CHOOSE b \in free : \A x \in free : b <= x, n>>}
             ELSE P

\* C10 (win-rate FIFO pairing): completed is the number of FIFO pairs, wins
\* the number of pairs whose SELL price is strictly above the BUY price, the
\* win rate is wins / completed * 100, and 0 when no pair completes; SELLs
\* without a pending BUY and BUYs never closed count nowhere.
C10_WinRate ==
    pc = "reported" =>
        LET P == C10_Pairs(trade_log, Len(trade_log))
            W == {p \in P : trade_log[p[2]].price > trade_log[p[1]].price}
        IN  /\ metrics.completed = Cardinality(P)
            /\ metrics.wins = Cardinality(W)
            /\ P # {} => metrics.win_rate_pct.num * Cardinality(P)
                           = Cardinality(W) * 100 * metrics.win_rate_pct.den
            /\ P = {} => metrics.win_rate_pct.num = 0
            /\ metrics.win_rate_pct.den > 0

\* Metrics were computed from a log of two BUYs at rising prices followed by
\* two SELLs at falling prices: only the first SELL, paired with the older
\* BUY, wins.
C10_Witness ==
    /\ pc = "reported"
    /\ Len(trade_log) = 4
    /\ trade_log[1].side = "BUY" /\ trade_log[2].side = "BUY"
    /\ trade_log[3].side = "SELL" /\ trade_log[4].side = "SELL"
    /\ trade_log[1].price < trade_log[2].price
    /\ trade_log[3].price = trade_log[2].price
    /\ trade_log[4].price = trade_log[1].price
    /\ metrics.wins = 1 /\ metrics.completed = 2
    /\ metrics.win_rate_pct = [num |-> 100, den |-> 2]

\* ---------------------------------------------------------------- C11
\* C11 (round-trip pairing respects the instrument): every pair that
\* compute_metrics counts is a BUY and a later SELL of the same instrument.
\* The loop keeps prices only and never reads the ticker, so this fails on a
\* log that interleaves two instruments.
C11_SameInstrument ==
    pc = "reported" =>
        \A p \in PairedTrades(trade_log, 1, <<>>) :
            /\ p[1] < p[2]
            /\ trade_log[p[1]].side = "BUY"
            /\ trade_log[p[2]].side = "SELL"
            /\ trade_log[p[1]].ticker = trade_log[p[2]].ticker

\* ---------------------------------------------------------------- C12
\* The sum of the Close column over rows a..b.
RECURSIVE C12_Sum(_, _, _)
C12_Sum(h, a, b) == IF a > b THEN 0 ELSE h[b].Close + C12_Sum(h, a, b - 1)

\* The order list the crossover rule prescribes for history h and the flag:
\* the averages of the last s and the last l closes, today and yesterday,
\* compared strictly (sum / s < sum / l as sum * l < sum * s).
C12_Rule(self, flag, h) ==
    LET n == Len(h)
        s == self.short_window
        l == self.long_window
    IN  IF n < l + 1 THEN <<>>
        ELSE LET sT == C12_Sum(h, n - s + 1, n)
                 sY == C12_Sum(h, n - s, n - 1)
                 lT == C12_Sum(h, n - l + 1, n)
                 lY == C12_Sum(h, n - l, n - 1)
                 up == sY * l < lY * s /\ sT * l > lT * s
                 down == sY * l > lY * s /\ sT * l < lT * s
             IN  IF up /\ ~flag
                 THEN <<[ticker |-> self.ticker, side |-> "BUY",
                         quantity |-> self.quantity]>>
                 ELSE IF down /\ flag
                      THEN <<[ticker |-> self.ticker, side |-> "SELL",
                              quantity |-> self.quantity]>>
                      ELSE <<>>

C12_Step ==
    (call_count' = call_count + 1 /\ strategy.kind = "sma") =>
        /\ orders' = C12_Rule(strategy, in_position, history')
        /\ Len(orders') <= 1

\* C12 (SMACrossover decision rule): with windows s < l and quantity q, a call
\* returns nothing while fewer than l + 1 bars are available; after that one
\* BUY of q exactly when the short average was strictly below the long one
\* yesterday, is strictly above it today, and the strategy is not in position;
\* one SELL of q exactly when the reverse holds and it is in position; nothing
\* otherwise, and never more than one order.
C12_CrossoverRule == [][C12_Step]_vars

\* The crossover strategy has just returned a SELL, closing the position an
\* earlier golden cross opened.
C12_Witness ==
    /\ strategy.kind = "sma"
    /\ pc = "orders" /\ k = 1
    /\ Len(orders) = 1 /\ orders[1].side = "SELL"
    /\ ~in_position
    /\ \E n \in 1..Len(trade_log) : trade_log[n].side = "BUY"

\* ---------------------------------------------------------------- C13
C13_Order(self, side) ==
    <<[ticker |-> self.ticker, side |-> side, quantity |-> self.quantity]>>

C13_Step ==
    (call_count' = call_count + 1 /\ strategy.kind = "mr") =>
        LET h == history'
            n == Len(h)
            w == strategy.lookback
            closes == CloseColumn(h)
            std == rolling_std(closes, w, n)
            z == z_score(closes[n], rolling_mean(closes, w, n), std)
            quiet == n < w \/ IsZero(std)
            buy == ~quiet /\ ZBelow(z, strategy.entry_z) /\ ~in_position
            sell == ~quiet /\ ~buy /\ ZAbove(z, strategy.exit_z) /\ in_position
        IN  /\ buy => orders' = C13_Order(strategy, "BUY") /\ in_position'
            /\ sell => orders' = C13_Order(strategy, "SELL") /\ ~in_position'
            /\ (~buy /\ ~sell) => orders' = <<>> /\ in_position' = in_position

RECURSIVE C14_SqDev(_, _, _, _, _)
C14_SqDev(h, a, b, w, total) ==
    IF a > b THEN 0
    ELSE (w * h[b].Close - total) * (w * h[b].Close - total)
             + C14_SqDev(h, a, b - 1, w, total)

\* The z-score of the last close of h over the last w closes, with the
\* variance taken as the sum of the squared deviations divided by `divisor`.
C14_Z(h, w, divisor) ==
    LET n == Len(h)
        total == C12_Sum(h, n - w + 1, n)
        sq == C14_SqDev(h, n - w + 1, n, w, total)
    IN  [nan |-> FALSE, num |-> w * h[n].Close - total, den |-> w,
         vnum |-> sq \div w, vden |-> w * divisor]

\* The reference rule: the order list for history h and the flag when the
\* standard deviation divides by `divisor`.
C14_Reference(self, flag, h, divisor) ==
    IF Len(h) < self.lookback THEN <<>>
    ELSE LET z == C14_Z(h, self.lookback, divisor)
         IN  IF z.vnum = 0 THEN <<>>
             ELSE IF ZBelow(z, self.entry_z) /\ ~flag
                  THEN C13_Order(self, "BUY")
                  ELSE IF ZAbove(z, self.exit_z) /\ flag
                       THEN C13_Order(self, "SELL")
                       ELSE <<>>

C14_PopulationStep ==
    (call_count' = call_count + 1 /\ strategy.kind = "mr") =>
        orders' = C14_Reference(strategy, in_position, history', strategy.lookback)

\* C14 as stated (population standard deviation): the z-score divides by the
\* standard deviation that divides the squared deviations by w, and every
\* decision coincides with the reference rule that uses it.
C14_PopulationStd == [][C14_PopulationStep]_vars

C14_SampleStep ==
    (call_count' = call_count + 1 /\ strategy.kind = "mr") =>
        orders' = C14_Reference(strategy, in_position, history',
                                strategy.lookback - 1)

\* C14 amended (sample standard deviation): the z-score divides by the
\* standard deviation that divides the squared deviations by w - 1, and every
\* decision coincides with the reference rule that uses it.
C14_SampleStd == [][C14_SampleStep]_vars

\* The strategy has just returned nothing on a history for which the rule
\* with the population standard deviation trades: the two divisors put z on
\* different sides of a threshold.
C14_Witness ==
    /\ strategy.kind = "mr"
    /\ pc = "orders" /\ k = 1
    /\ orders = <<>>
    /\ C14_Reference(strategy, in_position, history, strategy.lookback) # <<>>
    /\ C14_Reference(strategy, in_position, history, strategy.lookback - 1) = <<>>

\* ---------------------------------------------------------------- C15
\* C15 (drawdown sign): for every equity history of positive values the
\* reported maximum drawdown percentage is at most 0, and it is 0 exactly when
\* no equity value lies below an earlier one, that is below the running
\* maximum.
C15_DrawdownSign ==
    pc = "reported" =>
        LET below == \E t \in 1..Len(equity_curve) : \E u \in 1..(t - 1) :
                         equity_curve[u].equity > equity_curve[t].equity
        IN  /\ metrics.max_drawdown_pct.den > 0
            /\ metrics.max_drawdown_pct.num <= 0
            /\ metrics.max_drawdown_pct.num = 0 <=> ~below

\* Metrics were computed from an equity history that rises and then falls
\* back below its peak without returning to the start: the drawdown is
\* negative although the last value is above the first.
C15_Witness ==
    /\ pc = "reported"
    /\ Len(equity_curve) >= 3
    /\ equity_curve[2].equity > equity_curve[1].equity
    /\ equity_curve[3].equity < equity_curve[2].equity
    /\ equity_curve[3].equity > equity_curve[1].equity
    /\ metrics.max_drawdown_pct.num < 0

\* ---------------------------------------------------------------- C16
\* The strategy is called for a new day only from the loop head, once the
\* previous day's orders are all applied and its valuation is recorded.
C16_CallStep ==
    call_count' # call_count =>
        /\ call_count' = call_count + 1
        /\ pc = "loop"
        /\ call_count > 0 => k = Len(orders) + 1
        /\ Len(equity_curve) = call_count
        /\ k' = 1
        /\ UNCHANGED <<cash, positions, equity_curve, total_trades, trade_log>>

\* The day's orders are applied one at a time in the order returned, each
\* judged against the cash and positions the previous one left, and all of
\* them before the day's valuation exists.
C16_OrderStep ==
    /\ k' # k => k' = 1 \/ (k' = k + 1 /\ pc = "orders" /\ k <= Len(orders))
    /\ (k' = k + 1 \/ <<cash, positions, total_trades, trade_log>>'
                         # <<cash, positions, total_trades, trade_log>>) =>
           /\ pc = "orders" /\ k <= Len(orders) /\ k' = k + 1
           /\ accepted' <=> C8_Accepts(orders[k])
           /\ Len(equity_curve) = call_count - 1
           /\ UNCHANGED <<orders, equity_curve, call_count, today, close_price>>

\* The valuation of a day is recorded once, after the last of its orders and
\* before the next call of the strategy.
C16_ValuationStep ==
    equity_curve' # equity_curve =>
        /\ pc = "orders" /\ k = Len(orders) + 1
        /\ Len(equity_curve') = Len(equity_curve) + 1
        /\ Len(equity_curve') = call_count
        /\ Last(equity_curve').date = today
        /\ pc' = "loop"
        /\ UNCHANGED <<cash, positions, call_count, total_trades, trade_log>>

\* C16 (per-day ordering): within a run each day is handled as one strategy
\* call, then the returned orders applied in order, each against the state
\* the previous one left, then one valuation record, all before the next
\* day's strategy call; the valuation is never recorded before the day's
\* orders are applied.
C16_DayOrdering == [][C16_CallStep /\ C16_OrderStep /\ C16_ValuationStep]_vars

\* The strategy is being asked about the second day after the first day's
\* BUY and same-day SELL of A were both accepted, the SELL only thanks to the
\* BUY before it, and the first day's valuation was recorded.
C16_Witness ==
    /\ pc = "orders" /\ call_count = 2 /\ k = 1
    /\ Len(equity_curve) = 1
    /\ Len(trade_log) = 2
    /\ trade_log[1].side = "BUY" /\ trade_log[1].ticker = "A"
    /\ trade_log[2].side = "SELL" /\ trade_log[2].ticker = "A"
    /\ trade_log[1].date = equity_curve[1].date
    /\ trade_log[2].date = equity_curve[1].date

\* ---------------------------------------------------------------- C17
\* C17 (no pyramiding): in a run of a fresh SMACrossover or MeanReversion
\* instance with quantity q on an empty portfolio, the portfolio holds 0 or q
\* shares of the strategy's instrument and nothing else after every step, and
\* the accepted trades alternate BUY, SELL, BUY, ... starting with a BUY, for
\* every price history, starting capital and commission rate.
C17_NoPyramiding ==
    /\ Held(strategy.ticker) \in {0, strategy.quantity}
    /\ DOMAIN positions \subseteq {strategy.ticker}
    /\ \A n \in 1..Len(trade_log) :
           /\ trade_log[n].side = IF n % 2 = 1 THEN "BUY" ELSE "SELL"
           /\ trade_log[n].quantity = strategy.quantity
           /\ trade_log[n].ticker = strategy.ticker

\* A second BUY has been accepted after a completed BUY, SELL round trip, and
\* the portfolio holds q shares again.
C17_Witness ==
    /\ Len(trade_log) = 3
    /\ trade_log[3].side = "BUY"
    /\ Held(strategy.ticker) = strategy.quantity

\* ---------------------------------------------------------------- C18
\* C18 (the strategy's flag agrees with the portfolio): in a run of a fresh
\* SMACrossover or MeanReversion instance, after every day the in-position
\* flag is set exactly when the portfolio holds shares of the strategy's
\* instrument; a SELL is returned only when the portfolio holds the shares,
\* and every SELL returned is accepted. The flag is set when the BUY is
\* returned, whether or not the portfolio then accepts it, so this fails when
\* the cash does not cover the BUY.
C18_FlagAgrees ==
    /\ (pc = "loop" /\ call_count > 0) =>
           (in_position <=> Held(strategy.ticker) > 0)
    /\ (pc = "orders" /\ k = 1 /\ orders # <<>> /\ orders[1].side = "SELL") =>
           Held(strategy.ticker) >= orders[1].quantity
    /\ (pc = "orders" /\ k = 2 /\ orders[1].side = "SELL") => accepted

\* ---------------------------------------------------------------- C19
C19_Step ==
    pc = "execute" =>
        /\ (cash' # cash \/ positions' # positions) =>
               (pc' = "idle" /\ accepted')
        /\ orders[k].quantity <= 0 =>
               (pc' = "idle" /\ ~accepted' /\ UNCHANGED <<cash, positions>>)
        /\ cash' >= 0
        /\ \A t \in DOMAIN positions' : positions'[t] > 0

\* C19 (the Portfolio is the gatekeeper for invalid quantities): for every
\* order, one of zero or negative quantity included, execute_order changes
\* cash or positions only when it returns accepted = True, and never accepts
\* an order of non-positive quantity; so no such order raises cash, drives it
\* below 0, leaves a zero or negative position entry, or changes cash and
\* then fails. execute_order never looks at the sign of the quantity, so
\* this fails.
C19_Gatekeeper == [][C19_Step]_vars

\* ---------------------------------------------------------------- C20
\* A step that is a log_equity call: the valuation at the end of a day of
\* run_backtest, or a direct call on the Portfolio.
C20_LogCall ==
    \/ pc = "orders" /\ k > Len(orders)
    \/ pc = "idle" /\ pc' # "execute"

C20_Step ==
    /\ C20_LogCall =>
           LET missing == \E t \in DOMAIN positions : t \notin DOMAIN price_map'
           IN  /\ missing => /\ pc' = "raised"
                             /\ UNCHANGED <<equity_curve, cash, positions>>
               /\ ~missing => /\ pc' # "raised"
                              /\ Len(equity_curve') = Len(equity_curve) + 1
                              /\ UNCHANGED <<cash, positions>>
               /\ pc = "orders" => ~missing
    /\ pc \in {"loop", "orders", "returned"} => pc' # "raised"

\* C20 (a missing price is a hard failure without partial effect): log_equity
\* called with a price map that lacks the price of a held instrument fails
\* with an error, appends nothing to the equity history and leaves cash and
\* positions unchanged; with a complete map it appends one record; and in
\* run_backtest the price map always covers every held instrument, so a run
\* never ends in that failure.
C20_MissingPrice == [][C20_Step]_vars

\* A direct log_equity call has failed on a portfolio holding shares of a
\* ticker the price map does not mention, after the BUY of those shares was
\* accepted; nothing was appended.
C20_Witness ==
    /\ pc = "raised"
    /\ accepted
    /\ today # 0
    /\ \E t \in DOMAIN positions : positions[t] > 0 /\ t \notin DOMAIN price_map
    /\ equity_curve = <<>>

\* ---------------------------------------------------------------- C21
\* A step that is an execute_order call, in a run or on the Portfolio alone.
C21_ExecuteCall == pc \in {"orders", "execute"} /\ k <= Len(orders)

\* A step that is a log_equity call, in a run or on the Portfolio alone.
C21_LogCall ==
    \/ pc = "orders" /\ k > Len(orders)
    \/ pc = "idle" /\ pc' = "idle"

C21_Step ==
    /\ C21_ExecuteCall => equity_curve' = equity_curve
    /\ C21_LogCall =>
           /\ Len(equity_curve') = Len(equity_curve) + 1
           /\ \A n \in 1..Len(equity_curve) : equity_curve'[n] = equity_curve[n]
           /\ DOMAIN equity_curve'[Len(equity_curve')] = {"date", "equity"}
           /\ equity_curve'[Len(equity_curve')].date = today'
           /\ UNCHANGED <<cash, positions>>
    /\ ~(C21_ExecuteCall \/ C21_LogCall) =>
           UNCHANGED <<cash, positions, equity_curve>>

\* C21 (frame of the two portfolio mutators): execute_order, accepted or
\* rejected, never changes the equity history; log_equity appends exactly one
\* {date, equity} entry at the end, leaves every earlier entry in place and
\* unchanged, and never changes cash or positions; no other step of
\* run_backtest changes cash, positions or the equity history.
C21_Frame == [][C21_Step]_vars

\* A run has valued its second day after at least one accepted and one
\* rejected order: the history holds two entries with different dates.
C21_Witness ==
    /\ pc = "loop"
    /\ Len(equity_curve) = 2
    /\ equity_curve[1].date # equity_curve[2].date
    /\ total_trades >= 1
    /\ ~accepted

\* ---------------------------------------------------------------- C22
\* C22 (strategy state does not carry across backtests): a SMACrossover or
\* MeanReversion instance is not in position at the start of every
\* run_backtest, whatever an earlier run left, so a second run with the same
\* strategy, price history, capital and commission returns the trade log and
\* equity history of the first. The flag is cleared only in __init__, so this
\* fails when the first run ends with the flag set.
C22_NoCarryOver ==
    /\ (pc = "loop" /\ call_count = 0) => ~in_position
    /\ pc = "returned" =>
           \A n \in 1..Len(earlier_runs) :
               /\ earlier_runs[n].trade_log = trade_log
               /\ earlier_runs[n].equity_curve = equity_curve

====
